---- MODULE Spec2Model ----
(***************************************************************************)
(* Resumable catalog fetcher of movie_fetcher: the driver (main.py), the   *)
(* batch generator TraktService.get_top_movies (trakt_service.py) and the  *)
(* file store FileHandler (file_handler.py).                               *)
(*                                                                         *)
(* Persisted state is the index file and the set of item files.  A run of  *)
(* the driver is cut into steps at every request and every file write, so  *)
(* that an upstream error or a crash can fall between any two of them.     *)
(* An item file is modelled by its name: no operation of the fetcher      *)
(* reads an item file's content.                                           *)
(* The numeric constants of the source (BATCH_SIZE = 50, page size 20,     *)
(* target 12000) are scaled down, keeping BATCH_SIZE : page size = 5 : 2.  *)
(*                                                                         *)
(* The specifications share the state: Spec (driver runs with upstream     *)
(* errors and crashes), LiveSpec (Spec with the fairness of a sequential   *)
(* program), StoreSpec (save_movies and the index reads called directly),  *)
(* RequestSpec (the rate limiter and the requests made for one item after  *)
(* the other), ConcSpec (one or two driver processes on the same store),   *)
(* ReaderSpec (the downstream readers of the item records) and NameSpec    *)
(* (Movie.get_filename on any two movies).                                 *)
(***************************************************************************)
EXTENDS Integers, Sequences, FiniteSets, TLC

\* ---------------------------------------------------------------- bounds
MaxCatalog == 8       \* longest catalog listing
MaxTarget == 7        \* largest target_total of the driver
MaxLiveCatalog == 5   \* longest catalog listing of the runs checked for termination
MaxLiveTarget == 6    \* largest target_total of the runs checked for termination
MaxCrashes == 2       \* aborted runs (upstream error or crash) per behaviour
MaxRuns == 3          \* driver runs that start the generator, per behaviour
StoreIds == 2         \* identifiers used by direct save_movies calls
MaxBatchLen == 2      \* longest batch of a direct save_movies call
MaxCallPage == 2      \* largest page number of a direct save_movies call
MaxCalls == 2         \* direct save_movies calls per behaviour
MaxStoreEntries == 4  \* index entries direct save_movies calls may add up to
MaxRecords == 2       \* item records a downstream reader loads
MaxTitleLen == 2      \* longest title given to get_filename
MaxNameId == 11       \* largest identifier given to get_filename
MaxTime == 24         \* last instant of the clock of the request pipeline
MaxTick == 4          \* longest single stretch of processing time
MaxJitter == 1        \* longest oversleep of time.sleep
MaxPageItems == 2     \* new items of a listing page, request pipeline
MaxListings == 2      \* listing requests of the request pipeline
MaxConcCalls == 2     \* save_movies calls of the concurrent instances, in all
MaxConcPage == 2      \* largest page number yielded by a concurrent instance
ConcIds == 2          \* identifiers the concurrent instances yield
MaxConcBatch == 2     \* longest batch a concurrent instance yields

\* ------------------------------------------------------ program constants
BATCH_SIZE == 5       \* TraktService.BATCH_SIZE (50 in the source)
TraktPageLimit == 2   \* Trakt page size limit (20 in the source)
MAX_REQUESTS == 1000  \* TraktService.MAX_REQUESTS
WINDOW_SIZE == 300    \* TraktService.WINDOW_SIZE, seconds
\* TraktService.REQUEST_DELAY.  Time is counted in tenths of a second.
REQUEST_DELAY == (WINDOW_SIZE * 10) \div MAX_REQUESTS

Min(a, b) == IF a < b THEN a ELSE b
Max(a, b) == IF a > b THEN a ELSE b

\* ------------------------------------------------------------ item model
\* Characters for which str.isalnum() is true, among those titles use.
AlnumChars == {"A", "B", "1", "2"}

\* Titles the catalog gives to its items: equal titles, titles that
\* sanitize to the same string, a title ending in "_<digits>".
TitleOf(id) ==
  CASE id = 1 -> <<"A">>
    [] id = 2 -> <<"A">>
    [] id = 3 -> <<"A", " ">>
    [] id = 4 -> <<"A", "_">>
    [] id = 5 -> <<"A", "_", "1">>
    [] id = 6 -> <<"B", ":", "2">>
    [] OTHER  -> <<"B">>

\* A Movie object: only the fields the store reads (ids.trakt, title).
Movie(id) == [trakt |-> id, title |-> TitleOf(id)]

DigitChar(d) ==
  CASE d = 0 -> "0" [] d = 1 -> "1" [] d = 2 -> "2" [] d = 3 -> "3"
    [] d = 4 -> "4" [] d = 5 -> "5" [] d = 6 -> "6" [] d = 7 -> "7"
    [] d = 8 -> "8" [] d = 9 -> "9"

\* str(n) for a natural number n.
RECURSIVE IntStr(_)
IntStr(n) == IF n < 10 THEN <<DigitChar(n)>>
             ELSE IntStr(n \div 10) \o <<DigitChar(n % 10)>>

\* A file name made of the title alone.
FilenameTitleOnly(m) ==
  [i \in 1..Len(m.title) |->
     IF m.title[i] \in AlnumChars THEN m.title[i] ELSE "_"] \o <<".json">>

\* Movie.get_filename: every non-alphanumeric character becomes "_".
get_filename(m) ==
  LET clean_title == [i \in 1..Len(m.title) |->
                        IF m.title[i] \in AlnumChars THEN m.title[i] ELSE "_"]
  IN clean_title \o <<"_">> \o IntStr(m.trakt) \o <<".json">>

\* ------------------------------------------------------------ index file
\* The index file is absent, holds a JSON document, or is torn: opened for
\* writing (truncated) and not yet written.
NoIndex == [state |-> "absent", movies |-> <<>>, last_updated |-> 0,
            last_page |-> 0, fetched_ids |-> <<>>]

TornIndex == [state |-> "torn", movies |-> <<>>, last_updated |-> 0,
              last_page |-> 0, fetched_ids |-> <<>>]

\* FileHandler._load_index: the document, or the default index when the
\* file does not exist.  last_updated 0 stands for None.
load_index(f) ==
  IF f.state = "absent"
    THEN [movies |-> <<>>, last_updated |-> 0, last_page |-> 0,
          fetched_ids |-> <<>>]
    ELSE [movies |-> f.movies, last_updated |-> f.last_updated,
          last_page |-> f.last_page, fetched_ids |-> f.fetched_ids]

\* FileHandler._save_index: the document written for (movie_index, last_page)
\* at time t.
SaveIndexWithoutIds(movie_index, lp, t) ==
  [state |-> "valid", movies |-> movie_index, last_updated |-> t,
   last_page |-> lp, fetched_ids |-> <<>>]
save_index(movie_index, lp, t) ==
  [state |-> "valid", movies |-> movie_index, last_updated |-> t,
   last_page |-> lp,
   fetched_ids |-> [i \in 1..Len(movie_index) |-> movie_index[i].id]]

Range(s) == {s[i] : i \in 1..Len(s)}

\* FileHandler.get_last_page
LastPageDefault(f) == 0
get_last_page(f) == load_index(f).last_page

\* FileHandler.get_fetched_ids
get_fetched_ids(f) == Range(load_index(f).fetched_ids)

\* FileHandler.get_saved_count: the number of *.json files in MOVIES_DIR.
get_saved_count(fs) == Cardinality(fs)

\* save_movies, line 72: the identifiers of the loaded index entries.
existing_movies(index_movies) == {index_movies[i].id : i \in 1..Len(index_movies)}

\* save_movies, line 75: the movies of the batch not yet in the index.
NewMoviesAll(ms, existing) == ms
new_movies_of(ms, existing) ==
  SelectSeq(ms, LAMBDA m : m.trakt \notin existing)

\* save_movies, lines 113-120: the index entry of a movie.
IndexEntry(m) == [id |-> m.trakt, title |-> m.title, filename |-> get_filename(m)]

\* ------------------------------------------------------- catalog listing
\* The catalog's popular listing, most popular first.
Catalog(n) == [i \in 1..n |-> i]

\* GET /movies/popular?page=p&limit=l : the p-th slice of l items.
Listing(cat, p, l) ==
  SubSeq(cat, Min((p - 1) * l + 1, Len(cat) + 1), Min(p * l, Len(cat)))

\* get_top_movies, line 112: the "limit" parameter of a listing request.
page_limit(lim, total) == Min(lim - total, TraktPageLimit)

\* TraktService.__init__, line 39: the first page of a run.
StartPageAtCursor(f) == get_last_page(f)
start_page_of(f) == get_last_page(f) + 1

\* get_top_movies, lines 197 and 204: the page number delivered with a
\* batch, for the current page pg of a run that started at page sp.
PagesOfThisRun(pg, sp) == pg - sp + 1
yield_page(pg, sp) == pg

\* get_top_movies, line 196: the batch is handed over when it is full.
BatchOverfull(ms) == Len(ms) > BATCH_SIZE
batch_full(ms) == Len(ms) >= BATCH_SIZE

\* get_top_movies, line 130: the listed movie has been fetched already.
NeverFetched(id, fetched) == FALSE
already_fetched(id, fetched) == id \in fetched

\* ------------------------------------------------------------------ state
VARIABLES
  indexFile,        \* movies_index.json
  files,            \* names of the item files in MOVIES_DIR
  clock,            \* datetime.now(), counted in index writes
  catalog,          \* the catalog's listing
  target_total,     \* main: target_total
  pc,               \* position of the running driver, "idle" between runs
  remaining,        \* main: remaining, the generator's limit
  fetched_ids,      \* TraktService.fetched_ids
  start_page,       \* TraktService.start_page
  page,             \* get_top_movies: page
  total_processed,  \* get_top_movies: total_processed
  movies,           \* get_top_movies: movies, the batch being filled
  page_movies,      \* get_top_movies: page_movies
  pos,              \* get_top_movies: position of the for loop in page_movies
  resume,           \* where the generator is suspended: "batch" or "final"
  batch,            \* save_movies: movies
  current_page,     \* save_movies: current_page
  index_data,       \* save_movies: index_data["movies"]
  new_movies,       \* save_movies: new_movies
  wpos,             \* save_movies: position of the for loop in new_movies
  outcome,          \* how the last driver run ended
  aborts,           \* history: runs ended by an upstream error or a crash
  runs,             \* history: runs that started the generator
  page_log,         \* history: the last_page values written, in order
  listed,           \* history: <<page, id>> of the new items listed by this run
  yields,           \* history: the batches yielded by this run
  lookups,          \* history: detail/stats/ratings lookups per identifier
  yielded,          \* history: times an identifier was put in a yielded batch
  pre_index,        \* history: the index file when save_movies was called
  pre_files,        \* history: the item files when save_movies was called
  prev_batch,       \* history: the batch of the previous save_movies call
  calls,            \* history: completed save_movies calls
  requests,         \* history: the pages of this run's listing requests
  stable,           \* history: the store at the start of the run or after
                    \*   the last completed save_movies, whichever is later
  crash_batch,      \* history: identifiers of the batch save_movies was
                    \*   writing when the last crash hit
  read_result,      \* get_last_page() and get_fetched_ids() as last read
  now,              \* time.time()
  last_request_time,\* TraktService.last_request_time
  current_time,     \* _respect_rate_limit: current_time
  slept,            \* history: the last limiter pass called time.sleep
  this_return,      \* history: time at which the last limiter pass returned
  prev_return,      \* history: time at which the pass before it returned
  passes,           \* history: limiter passes, capped at 2
  rq,               \* request pipeline: the request being made
  phase,            \* request pipeline: position within that request
  log,              \* history: limiter passes and requests of this item
  tmdb,             \* movie["ids"]["tmdb"] of the item, 0 for None
  status,           \* response.status_code of the last answer
  keywords,         \* get_top_movies: keywords
  items_left,       \* new items of page_movies still to process
  listings,         \* listing requests made
  instances,        \* number of driver processes on the store
  c_pc,             \* per instance: position of the process
  c_page,           \* per instance: get_top_movies' page at the last yield
  c_batch,          \* per instance: save_movies' movies
  c_cur,            \* per instance: save_movies' current_page
  c_index_data,     \* per instance: save_movies' index_data["movies"]
  c_new,            \* per instance: save_movies' new_movies
  c_wpos,           \* per instance: position of the for loop in new_movies
  c_calls,          \* history: save_movies calls made per instance
  open_len,         \* entries of the longest document written into the
                    \*   index file since it was last truncated
  reader,           \* which downstream reader runs
  rd_data,          \* movies_data: the loaded item records
  rd_pos,           \* position of the for loop in movies_data
  rd_out,           \* processed_data, as positions in movies_data
  rd_state,         \* "running", "done", "raised" or "no_valid"
  fn_movies,        \* the movies whose file names are asked for
  fn_names          \* the file names get_filename has returned for them

store == <<indexFile, files, clock>>
inputs == <<catalog, target_total>>
gen == <<remaining, fetched_ids, start_page, page, total_processed, movies,
         page_movies, pos, resume>>
saver == <<batch, current_page, index_data, new_movies, wpos>>
hist == <<outcome, aborts, runs, page_log, listed, yields, lookups, yielded>>
callhist == <<pre_index, pre_files, prev_batch, calls>>
hist2 == <<requests, stable, crash_batch>>
limiter == <<now, last_request_time, current_time, slept, this_return,
             prev_return, passes>>
pipe == <<rq, phase, log, tmdb, status, keywords, items_left, listings>>
conc == <<instances, c_pc, c_page, c_batch, c_cur, c_index_data, c_new,
          c_wpos, c_calls, open_len>>
readers == <<reader, rd_data, rd_pos, rd_out, rd_state>>
naming == <<fn_movies, fn_names>>
ext == <<read_result, limiter, pipe, conc, readers, naming>>
base == <<store, inputs, pc, gen, saver, hist, callhist, hist2>>
core == <<base, conc, readers, naming>>
vars == <<store, inputs, pc, gen, saver, hist, callhist, hist2, ext>>

Ids == 1..MaxCatalog

CoreInit ==
  /\ indexFile = NoIndex
  /\ files = {}
  /\ clock = 0
  /\ catalog \in {Catalog(n) : n \in 1..MaxCatalog}
  /\ target_total \in 1..MaxTarget
  /\ pc = "idle"
  /\ remaining = 0
  /\ fetched_ids = {}
  /\ start_page = 0
  /\ page = 0
  /\ total_processed = 0
  /\ movies = <<>>
  /\ page_movies = <<>>
  /\ pos = 0
  /\ resume = "none"
  /\ batch = <<>>
  /\ current_page = 0
  /\ index_data = <<>>
  /\ new_movies = <<>>
  /\ wpos = 0
  /\ outcome = "none"
  /\ aborts = 0
  /\ runs = 0
  /\ page_log = <<>>
  /\ listed = {}
  /\ yields = <<>>
  /\ lookups = [i \in Ids |-> 0]
  /\ yielded = [i \in Ids |-> 0]
  /\ pre_index = NoIndex
  /\ pre_files = {}
  /\ prev_batch = <<>>
  /\ calls = 0
  /\ requests = <<>>
  /\ stable = [index |-> NoIndex, files |-> {}]
  /\ crash_batch = {}

TraktKinds == {"listing", "details", "stats", "ratings"}

\* The requests that call _respect_rate_limit before requests.get:
\* get_top_movies' listing, get_movie_details, get_movie_stats and
\* get_movie_ratings do, TMDBService.get_movie_keywords does not.
NoPass(kind) == FALSE
needs_pass(kind) == kind \in TraktKinds

start_phase(kind) == IF needs_pass(kind) THEN "call" ELSE "send"

\* TraktService.__init__ and the entry of get_top_movies' while loop.
PipeInit ==
  /\ last_request_time = 0
  /\ current_time = 0
  /\ slept = FALSE
  /\ this_return = 0
  /\ prev_return = 0
  /\ passes = 0
  /\ rq = "listing"
  /\ phase = start_phase("listing")
  /\ log = <<>>
  /\ tmdb = 0
  /\ status = 200
  /\ keywords = <<>>
  /\ items_left = 0
  /\ listings = 0

\* Nothing has been read yet.
NotRead == [done |-> FALSE, index |-> load_index(NoIndex), last_page |-> 0,
            fetched_ids |-> {}]

ReadInit == read_result = NotRead

\* No process has started.
ConcIdle ==
  /\ c_pc = [i \in 1..2 |-> "new"]
  /\ c_page = [i \in 1..2 |-> 0]
  /\ c_batch = [i \in 1..2 |-> <<>>]
  /\ c_cur = [i \in 1..2 |-> 0]
  /\ c_index_data = [i \in 1..2 |-> <<>>]
  /\ c_new = [i \in 1..2 |-> <<>>]
  /\ c_wpos = [i \in 1..2 |-> 0]
  /\ c_calls = [i \in 1..2 |-> 0]
  /\ open_len = 0

\* No reader runs.
ReaderIdle ==
  /\ reader = "loader"
  /\ rd_data = <<>>
  /\ rd_pos = 1
  /\ rd_out = <<>>
  /\ rd_state = "done"

\* No file name is asked for.
NameIdle ==
  /\ fn_movies = <<>>
  /\ fn_names = <<>>

ExtInit ==
  /\ ReadInit
  /\ now = REQUEST_DELAY
  /\ PipeInit
  /\ instances = 1
  /\ ConcIdle
  /\ ReaderIdle
  /\ NameIdle

Init == CoreInit /\ ExtInit

\* The run is over: its locals are dead.  total_processed keeps the number
\* of items the run fetched.
EndRun(how) ==
  /\ pc' = "idle"
  /\ outcome' = how
  /\ remaining' = 0
  /\ fetched_ids' = {}
  /\ start_page' = 0
  /\ page' = 0
  /\ UNCHANGED total_processed
  /\ movies' = <<>>
  /\ page_movies' = <<>>
  /\ pos' = 0
  /\ resume' = "none"
  /\ batch' = <<>>
  /\ current_page' = 0
  /\ index_data' = <<>>
  /\ new_movies' = <<>>
  /\ wpos' = 0

\* main, lines 12-45: count the item files, read the last index entry,
\* compute remaining, construct TraktService and start the generator.
MainStart ==
  /\ pc = "idle"
  /\ IF indexFile.state = "torn"
       THEN \* get_last_saved_movie: json.load raises, main reports it
            /\ outcome' = "error"
            /\ UNCHANGED <<store, inputs, pc, gen, saver, aborts, runs,
                           page_log, listed, yields, lookups, yielded,
                           callhist, hist2>>
       ELSE LET saved_count == get_saved_count(files)
                rem == Max(0, target_total - saved_count)
            IN IF rem = 0
                 THEN /\ outcome' = "reached"
                      /\ UNCHANGED <<store, inputs, pc, gen, saver, aborts,
                                     runs, page_log, listed, yields, lookups,
                                     yielded, callhist, hist2>>
                 ELSE /\ runs < MaxRuns
                      /\ runs' = runs + 1
                      /\ pc' = "loop"
                      /\ remaining' = rem
                      /\ fetched_ids' = get_fetched_ids(indexFile)
                      /\ start_page' = start_page_of(indexFile)
                      /\ page' = start_page_of(indexFile)
                      /\ movies' = <<>>
                      /\ total_processed' = 0
                      /\ outcome' = "running"
                      /\ listed' = {}
                      /\ yields' = <<>>
                      /\ requests' = <<>>
                      /\ stable' = [index |-> indexFile, files |-> files]
                      /\ UNCHANGED <<store, inputs, page_movies, pos, resume,
                                     saver, aborts, page_log, lookups, yielded,
                                     callhist, crash_batch>>
  /\ UNCHANGED ext

\* get_top_movies, lines 107-123: one listing request.
ListingRequest ==
  /\ pc = "loop"
  /\ total_processed < remaining
  /\ LET pm == Listing(catalog, page, page_limit(remaining, total_processed))
     IN /\ page_movies' = pm
        /\ pos' = 1
        /\ pc' = IF pm = <<>> THEN "tail" ELSE "items"
        /\ listed' = listed \cup
             {<<page, pm[i]>> : i \in {j \in 1..Len(pm) : pm[j] \notin fetched_ids}}
  /\ UNCHANGED <<store, inputs, remaining, fetched_ids, start_page, page,
                 total_processed, movies, resume, saver, outcome, aborts,
                 runs, page_log, yields, lookups, yielded, callhist>>
  /\ requests' = Append(requests, page)
  /\ UNCHANGED <<stable, crash_batch, ext>>

\* get_top_movies, line 107: the while condition fails.
LoopExitLate ==
  /\ pc = "loop"
  /\ total_processed > remaining
  /\ pc' = "tail"
  /\ UNCHANGED <<store, inputs, gen, saver, hist, callhist>>
  /\ UNCHANGED <<hist2, ext>>

LoopExitEarly ==
  /\ pc = "loop"
  /\ total_processed + 1 >= remaining
  /\ pc' = "tail"
  /\ UNCHANGED <<store, inputs, gen, saver, hist, callhist>>
  /\ UNCHANGED <<hist2, ext>>

LoopExit ==
  /\ pc = "loop"
  /\ total_processed >= remaining
  /\ pc' = "tail"
  /\ UNCHANGED <<store, inputs, gen, saver, hist, callhist>>
  /\ UNCHANGED <<hist2, ext>>

\* The driver receives (ms, p) from the generator and calls save_movies:
\* main, lines 45-46.
Yield(ms, p, where) ==
  /\ pc' = "save"
  /\ resume' = where
  /\ batch' = ms
  /\ current_page' = p
  /\ yields' = Append(yields, [batch |-> ms, page |-> p])
  /\ yielded' = [i \in Ids |->
        yielded[i] + Cardinality({k \in 1..Len(ms) : ms[k].trakt = i})]
  /\ pre_index' = indexFile
  /\ pre_files' = files
  /\ prev_batch' = batch

\* get_top_movies, lines 125-198: one iteration of the for loop.
ProcessItem ==
  /\ pc = "items"
  /\ pos <= Len(page_movies)
  /\ total_processed < remaining
  /\ LET id == page_movies[pos]
     IN IF already_fetched(id, fetched_ids)
          THEN /\ pos' = pos + 1
               /\ UNCHANGED <<pc, movies, total_processed, resume, saver,
                              yields, lookups, yielded, callhist>>
          ELSE LET ms == Append(movies, Movie(id))
               IN /\ lookups' = [lookups EXCEPT ![id] = @ + 1]
                  /\ total_processed' = total_processed + 1
                  /\ movies' = ms
                  /\ IF batch_full(ms)
                       THEN /\ Yield(ms, yield_page(page, start_page), "batch")
                            /\ UNCHANGED <<pos, index_data, new_movies, wpos, calls>>
                       ELSE /\ pos' = pos + 1
                            /\ UNCHANGED <<pc, resume, saver, yields, yielded,
                                           callhist>>
  /\ UNCHANGED <<store, inputs, remaining, fetched_ids, start_page, page,
                 page_movies, outcome, aborts, runs, page_log, listed>>
  /\ UNCHANGED <<hist2, ext>>

\* get_top_movies, lines 126-127 and 200: the for loop ends, by exhaustion
\* or by its break, and the page number advances.
PageDone ==
  /\ pc = "items"
  /\ pos > Len(page_movies) \/ total_processed >= remaining
  /\ page' = page + 1
  /\ pc' = "loop"
  /\ UNCHANGED <<store, inputs, remaining, fetched_ids, start_page,
                 total_processed, movies, page_movies, pos, resume, saver,
                 hist, callhist>>
  /\ UNCHANGED <<hist2, ext>>

\* get_top_movies, lines 202-207, and main, lines 59-65: the remaining
\* movies are yielded, or the generator returns and the run ends.
GenTail ==
  /\ pc = "tail"
  /\ IF movies # <<>>
       THEN /\ Yield(movies, yield_page(page, start_page), "final")
            /\ UNCHANGED <<store, inputs, remaining, fetched_ids, start_page,
                           page, total_processed, movies, page_movies, pos,
                           index_data, new_movies, wpos, outcome, aborts,
                           runs, page_log, listed, lookups, calls>>
       ELSE /\ EndRun("ok")
            /\ UNCHANGED <<store, inputs, aborts, runs, page_log, listed,
                           yields, lookups, yielded, callhist>>
  /\ UNCHANGED <<hist2, ext>>

\* save_movies, lines 71-78: load the index, select the new movies, return
\* when there are none.
SaveSkipped ==
  /\ pc = "save"
  /\ pc' = "saved"
  /\ UNCHANGED <<store, inputs, gen, saver, hist, callhist, hist2, ext>>

SaveBegin ==
  /\ pc = "save"
  /\ indexFile.state # "torn"
  /\ LET loaded == load_index(indexFile).movies
         new == new_movies_of(batch, existing_movies(loaded))
     IN /\ index_data' = loaded
        /\ new_movies' = new
        /\ wpos' = 1
        /\ IF new = <<>>
             THEN pc' = "saved" /\ calls' = calls + 1
             ELSE pc' = "writing" /\ calls' = calls
  /\ UNCHANGED <<store, inputs, gen, batch, current_page, hist, pre_index,
                 pre_files, prev_batch>>
  /\ UNCHANGED <<hist2, ext>>

\* save_movies, lines 99-120: write one item file and append its entry to
\* the index held in memory.
WriteItem ==
  /\ pc = "writing"
  /\ wpos <= Len(new_movies)
  /\ LET movie == new_movies[wpos]
     IN /\ files' = files \cup {get_filename(movie)}
        /\ index_data' = Append(index_data, IndexEntry(movie))
  /\ wpos' = wpos + 1
  /\ UNCHANGED <<indexFile, clock, inputs, pc, gen, batch, current_page,
                 new_movies, hist, callhist>>
  /\ UNCHANGED <<hist2, ext>>

\* _save_index, line 32: open(INDEX_FILE, "w") truncates the index file.
OpenIndex ==
  /\ pc = "writing"
  /\ wpos > Len(new_movies)
  /\ indexFile' = TornIndex
  /\ pc' = "dumping"
  /\ UNCHANGED <<files, clock, inputs, gen, saver, hist, callhist>>
  /\ UNCHANGED <<hist2, ext>>

\* _save_index, lines 33-38: the document is written and the file closed;
\* save_movies returns.
DumpIndex ==
  /\ pc = "dumping"
  /\ clock' = clock + 1
  /\ indexFile' = save_index(index_data, current_page, clock + 1)
  /\ pc' = "saved"
  /\ calls' = calls + 1
  /\ page_log' = Append(page_log, indexFile'.last_page)
  /\ UNCHANGED <<files, inputs, gen, saver, outcome, aborts, runs, listed,
                 yields, lookups, yielded, pre_index, pre_files, prev_batch>>
  /\ stable' = [index |-> indexFile', files |-> files]
  /\ UNCHANGED <<requests, crash_batch, ext>>

\* get_top_movies, line 198 (movies = [] and the for loop goes on) or lines
\* 206-207 and main, lines 59-65 (the generator is exhausted, the run ends).
GenResume ==
  /\ pc = "saved"
  /\ resume \in {"batch", "final"}
  /\ IF resume = "batch"
       THEN /\ movies' = <<>>
            /\ pos' = pos + 1
            /\ pc' = "items"
            /\ resume' = "none"
            /\ UNCHANGED <<remaining, fetched_ids, start_page, page,
                           total_processed, page_movies, saver, outcome>>
       ELSE EndRun("ok")
  /\ UNCHANGED <<store, inputs, aborts, runs, page_log, listed, yields,
                 lookups, yielded, callhist>>
  /\ UNCHANGED <<hist2, ext>>

\* The generator is about to send a request: the listing request of line
\* 118, or the detail, stats, ratings and keyword lookups of lines 135-153.
AtRequest ==
  \/ pc = "loop" /\ total_processed < remaining
  \/ /\ pc = "items"
     /\ pos <= Len(page_movies)
     /\ total_processed < remaining
     /\ page_movies[pos] \notin fetched_ids

\* An error handler that saves the items fetched so far.
UpstreamErrorSavesPartial ==
  /\ AtRequest
  /\ aborts < MaxCrashes
  /\ aborts' = aborts + 1
  /\ EndRun("error")
  /\ files' = files \cup {get_filename(movies[k]) : k \in 1..Len(movies)}
  /\ UNCHANGED <<indexFile, clock, inputs, runs, page_log, listed, yields,
                 lookups, yielded, callhist>>
  /\ UNCHANGED <<hist2, ext>>

\* raise_for_status raises on a non-2xx answer; main, lines 67-68, reports
\* the error and the run is over.
UpstreamError ==
  /\ AtRequest
  /\ aborts < MaxCrashes
  /\ aborts' = aborts + 1
  /\ EndRun("error")
  /\ UNCHANGED <<store, inputs, runs, page_log, listed, yields, lookups,
                 yielded, callhist>>
  /\ UNCHANGED <<hist2, ext>>

\* The process is killed at any point of a run.
Crash ==
  /\ pc # "idle"
  /\ aborts < MaxCrashes
  /\ aborts' = aborts + 1
  /\ EndRun("crash")
  /\ UNCHANGED <<store, inputs, runs, page_log, listed, yields, lookups,
                 yielded, callhist>>
  /\ crash_batch' = IF pc \in {"writing", "dumping"}
                      THEN {batch[k].trakt : k \in 1..Len(batch)}
                      ELSE {}
  /\ UNCHANGED <<requests, stable, ext>>

Next ==
  \/ MainStart
  \/ ListingRequest
  \/ LoopExit
  \/ ProcessItem
  \/ PageDone
  \/ GenTail
  \/ SaveBegin
  \/ WriteItem
  \/ OpenIndex
  \/ DumpIndex
  \/ GenResume
  \/ UpstreamError
  \/ Crash

Spec == Init /\ [][Next]_vars

\* The steps of a run that is under way.  The driver is a sequential
\* program: as long as it is neither killed nor stopped by an error, its
\* next statement is executed.
RunStep ==
  \/ ListingRequest
  \/ LoopExit
  \/ ProcessItem
  \/ PageDone
  \/ GenTail
  \/ SaveBegin
  \/ WriteItem
  \/ OpenIndex
  \/ DumpIndex
  \/ GenResume

LiveInit ==
  /\ Init
  /\ Len(catalog) <= MaxLiveCatalog
  /\ target_total <= MaxLiveTarget

LiveSpec == LiveInit /\ [][Next]_vars /\ WF_vars(RunStep)

\* ------------------------------------------- the store called directly
\* Batches of a direct call: any sequence of movies, repeats included.
RECURSIVE SeqsUpTo(_, _)
SeqsUpTo(S, n) ==
  IF n = 0 THEN {<<>>}
  ELSE LET shorter == SeqsUpTo(S, n - 1)
       IN shorter \cup {Append(s, x) : s \in shorter, x \in S}

StoreBatches == SeqsUpTo({Movie(i) : i \in 1..StoreIds}, MaxBatchLen)

\* FileHandler.save_movies(b, p) called on the store as it is.
StoreCall ==
  /\ pc \in {"idle", "saved"}
  /\ resume = "none"
  /\ calls < MaxCalls
  /\ \E b \in StoreBatches, p \in 1..MaxCallPage :
       /\ Len(indexFile.movies) + Len(b) <= MaxStoreEntries
       /\ batch' = b
       /\ current_page' = p
  /\ pc' = "save"
  /\ pre_index' = indexFile
  /\ pre_files' = files
  /\ prev_batch' = batch
  /\ read_result' = NotRead
  /\ UNCHANGED <<store, inputs, gen, index_data, new_movies, wpos, hist, calls>>
  /\ UNCHANGED <<hist2, limiter, pipe, conc, readers, naming>>

\* FileHandler._load_index, get_last_page and get_fetched_ids called between
\* two save_movies calls.
ReadIndex ==
  /\ pc \in {"idle", "saved"}
  /\ resume = "none"
  /\ indexFile.state # "torn"
  /\ read_result' = [done |-> TRUE,
                     index |-> load_index(indexFile),
                     last_page |-> get_last_page(indexFile),
                     fetched_ids |-> get_fetched_ids(indexFile)]
  /\ UNCHANGED <<core, limiter, pipe>>

StoreInit ==
  /\ Init
  /\ catalog = Catalog(1)
  /\ target_total = 1

StoreNext ==
  \/ StoreCall
  \/ ReadIndex
  \/ SaveBegin
  \/ WriteItem
  \/ OpenIndex
  \/ DumpIndex

StoreSpec == StoreInit /\ [][StoreNext]_vars

\* ------------------------------------------------- the request pipeline
\* The requests of get_top_movies, one at a time: the listing request, then
\* for every new item of the page the detail, stats and ratings requests
\* and the keyword request of TMDBService.  Time passes between any two
\* steps; time.time() is the time since the epoch, so the first reading is
\* at least REQUEST_DELAY.
Statuses == {200, 404, 500}
TmdbIds == {0, 999}

\* _respect_rate_limit, line 49: the time stored in last_request_time.
StampBefore(cur, t) == cur
stamp_time(cur, t) == t

\* get_movie_keywords, line 23: the movie is not in TMDB.
NotFoundFatal(st) == FALSE
not_found(st) == st = 404

\* Processing time, anywhere.
ReqTick ==
  /\ rq \notin {"done", "raised"}
  /\ \E d \in 1..MaxTick : now + d <= MaxTime /\ now' = now + d
  /\ UNCHANGED <<core, read_result, last_request_time, current_time, slept,
                 this_return, prev_return, passes, pipe>>

\* _respect_rate_limit, line 43.
LimiterRead ==
  /\ rq \in TraktKinds /\ phase = "call"
  /\ current_time' = now
  /\ phase' = "read"
  /\ UNCHANGED <<core, read_result, now, last_request_time, slept,
                 this_return, prev_return, passes, rq, log, tmdb, status,
                 keywords, items_left, listings>>

\* _respect_rate_limit, lines 44-47: time.sleep lasts at least the time
\* asked for.
LimiterWait ==
  /\ phase = "read"
  /\ LET time_since_last == current_time - last_request_time
     IN IF time_since_last < REQUEST_DELAY
          THEN /\ \E j \in 0..MaxJitter :
                    now' = now + (REQUEST_DELAY - time_since_last) + j
               /\ now' <= MaxTime
               /\ slept' = TRUE
          ELSE /\ now' = now
               /\ slept' = FALSE
  /\ phase' = "stamp"
  /\ UNCHANGED <<core, read_result, last_request_time, current_time,
                 this_return, prev_return, passes, rq, log, tmdb, status,
                 keywords, items_left, listings>>

\* _respect_rate_limit, line 49, and the return to the caller.
LimiterStamp ==
  /\ phase = "stamp"
  /\ last_request_time' = stamp_time(current_time, now)
  /\ prev_return' = this_return
  /\ this_return' = now
  /\ passes' = Min(passes + 1, 2)
  /\ log' = Append(log, "pass")
  /\ phase' = "send"
  /\ UNCHANGED <<core, read_result, now, current_time, slept, rq, tmdb,
                 status, keywords, items_left, listings>>

\* requests.get: the request goes out and its answer comes back.
SendRequest ==
  /\ phase = "send"
  /\ \E st \in Statuses : status' = st
  /\ log' = Append(log, rq)
  /\ listings' = IF rq = "listing" THEN listings + 1 ELSE listings
  /\ phase' = "answer"
  /\ UNCHANGED <<core, read_result, limiter, rq, tmdb, keywords, items_left>>

\* The for loop of get_top_movies reaches a new item: get_movie_details.
StartItem(n) ==
  /\ items_left' = n
  /\ \E t \in TmdbIds : tmdb' = t
  /\ rq' = "details"
  /\ phase' = start_phase("details")
  /\ log' = <<>>
  /\ keywords' = <<>>

\* The while loop of get_top_movies asks for the next page, or is left
\* because the limit is reached.
NextListing ==
  /\ UNCHANGED <<tmdb, keywords>>
  /\ items_left' = 0
  /\ log' = <<>>
  /\ IF listings < MaxListings
       THEN rq' = "listing" /\ phase' = start_phase("listing")
       ELSE rq' = "done" /\ phase' = "none"

\* get_top_movies, lines 119-125.
ListingAnswer ==
  /\ rq = "listing" /\ phase = "answer"
  /\ IF status # 200
       THEN /\ rq' = "raised" /\ phase' = "none"
            /\ UNCHANGED <<log, tmdb, keywords, items_left>>
       ELSE \E n \in 0..MaxPageItems :
              IF n = 0
                THEN /\ rq' = "done" /\ phase' = "none"
                     /\ UNCHANGED <<log, tmdb, keywords, items_left>>
                ELSE StartItem(n)
  /\ UNCHANGED <<core, read_result, limiter, status, listings>>

\* get_movie_details, get_movie_stats, get_movie_ratings: raise_for_status
\* and the next call of get_top_movies, lines 135-153.
TraktAnswer ==
  /\ rq \in {"details", "stats", "ratings"} /\ phase = "answer"
  /\ IF status # 200
       THEN rq' = "raised" /\ phase' = "none" /\ UNCHANGED keywords
       ELSE IF rq = "details"
         THEN rq' = "stats" /\ phase' = start_phase("stats")
              /\ UNCHANGED keywords
       ELSE IF rq = "stats"
         THEN rq' = "ratings" /\ phase' = start_phase("ratings")
              /\ UNCHANGED keywords
       ELSE IF tmdb # 0
         THEN rq' = "keywords" /\ phase' = start_phase("keywords")
              /\ UNCHANGED keywords
         ELSE rq' = "build" /\ phase' = "none" /\ keywords' = <<>>
  /\ UNCHANGED <<core, read_result, limiter, log, tmdb, status, items_left,
                 listings>>

\* TMDBService.get_movie_keywords, lines 22-27.
KeywordAnswer ==
  /\ rq = "keywords" /\ phase = "answer"
  /\ IF not_found(status)
       THEN rq' = "build" /\ keywords' = <<>>
       ELSE IF status # 200
         THEN rq' = "raised" /\ UNCHANGED keywords
         ELSE rq' = "build" /\ keywords' = <<"keyword">>
  /\ phase' = "none"
  /\ UNCHANGED <<core, read_result, limiter, log, tmdb, status, items_left,
                 listings>>

\* get_top_movies, lines 156-193: the Movie is built and appended; the for
\* loop goes on with the next item of the page.
BuildMovie ==
  /\ rq = "build"
  /\ IF items_left > 1 THEN StartItem(items_left - 1) ELSE NextListing
  /\ UNCHANGED <<core, read_result, limiter, status, listings>>

RequestInit ==
  /\ CoreInit
  /\ catalog = Catalog(1)
  /\ target_total = 1
  /\ ReadInit
  /\ instances = 1
  /\ ConcIdle
  /\ ReaderIdle
  /\ NameIdle
  /\ now \in REQUEST_DELAY..(REQUEST_DELAY + 1)
  /\ PipeInit

RequestNext ==
  \/ ReqTick
  \/ LimiterRead
  \/ LimiterWait
  \/ LimiterStamp
  \/ SendRequest
  \/ ListingAnswer
  \/ TraktAnswer
  \/ KeywordAnswer
  \/ BuildMovie

RequestSpec == RequestInit /\ [][RequestNext]_vars

\* ------------------------------------------- two instances on one store
\* One or two driver processes on the same DATA_DIR.  Each is a TraktService
\* constructed on the store as it found it, yielding batches with page
\* numbers that never decrease, and calling save_movies for each.  The
\* steps of save_movies interleave freely between the instances.
concFrame == <<inputs, pc, gen, saver, outcome, aborts, runs, listed, yields,
               lookups, yielded, callhist, hist2, read_result, limiter, pipe,
               readers, naming>>

Instances == 1..instances

\* The batches an instance yields: not empty, items in listing order.
ConcBatches ==
  {b \in SeqsUpTo({Movie(i) : i \in 1..ConcIds}, MaxConcBatch) \ {<<>>} :
     \A k \in 1..(Len(b) - 1) : b[k].trakt < b[k + 1].trakt}

\* TraktService.__init__, lines 38-39; json.load raises on a torn index.
ConcStart(i) ==
  /\ c_pc[i] = "new"
  /\ IF indexFile.state = "torn"
       THEN /\ c_pc' = [c_pc EXCEPT ![i] = "failed"]
            /\ UNCHANGED c_page
       ELSE /\ c_pc' = [c_pc EXCEPT ![i] = "ready"]
            /\ c_page' = [c_page EXCEPT ![i] = get_last_page(indexFile) + 1]
  /\ UNCHANGED <<store, page_log, concFrame, instances, c_batch, c_cur,
                 c_index_data, c_new, c_wpos, c_calls, open_len>>

\* main, lines 45-46: the generator yields (b, p) and save_movies is called.
ConcCall(i) ==
  /\ c_pc[i] = "ready"
  /\ c_calls[1] + c_calls[2] < MaxConcCalls
  /\ \E b \in ConcBatches, p \in c_page[i]..MaxConcPage :
       /\ c_batch' = [c_batch EXCEPT ![i] = b]
       /\ c_cur' = [c_cur EXCEPT ![i] = p]
       /\ c_page' = [c_page EXCEPT ![i] = p]
  /\ c_pc' = [c_pc EXCEPT ![i] = "load"]
  /\ c_calls' = [c_calls EXCEPT ![i] = @ + 1]
  /\ UNCHANGED <<store, page_log, concFrame, instances, c_index_data, c_new,
                 c_wpos, open_len>>

\* save_movies returns or raises: its locals are dead.
ConcReturn(i, to) ==
  /\ c_pc' = [c_pc EXCEPT ![i] = to]
  /\ c_batch' = [c_batch EXCEPT ![i] = <<>>]
  /\ c_cur' = [c_cur EXCEPT ![i] = 0]
  /\ c_index_data' = [c_index_data EXCEPT ![i] = <<>>]
  /\ c_new' = [c_new EXCEPT ![i] = <<>>]
  /\ c_wpos' = [c_wpos EXCEPT ![i] = 0]

\* save_movies, lines 71-78.
ConcLoad(i) ==
  /\ c_pc[i] = "load"
  /\ IF indexFile.state = "torn"
       THEN ConcReturn(i, "failed")
       ELSE LET loaded == load_index(indexFile).movies
                new == new_movies_of(c_batch[i], existing_movies(loaded))
            IN IF new = <<>>
                 THEN ConcReturn(i, "ready")
                 ELSE /\ c_index_data' = [c_index_data EXCEPT ![i] = loaded]
                      /\ c_new' = [c_new EXCEPT ![i] = new]
                      /\ c_wpos' = [c_wpos EXCEPT ![i] = 1]
                      /\ c_pc' = [c_pc EXCEPT ![i] = "writing"]
                      /\ UNCHANGED <<c_batch, c_cur>>
  /\ UNCHANGED <<store, page_log, concFrame, instances, c_page, c_calls,
                 open_len>>

\* An iteration that writes the item file and leaves the index entry out.
ConcWriteNoAppend(i) ==
  /\ c_pc[i] = "writing"
  /\ c_wpos[i] <= Len(c_new[i])
  /\ files' = files \cup {get_filename(c_new[i][c_wpos[i]])}
  /\ c_wpos' = [c_wpos EXCEPT ![i] = @ + 1]
  /\ UNCHANGED <<indexFile, clock, page_log, concFrame, instances, c_pc,
                 c_batch, c_cur, c_page, c_index_data, c_new, c_calls,
                 open_len>>

\* save_movies, lines 99-120: one iteration of the for loop.
ConcWrite(i) ==
  /\ c_pc[i] = "writing"
  /\ c_wpos[i] <= Len(c_new[i])
  /\ LET movie == c_new[i][c_wpos[i]]
     IN /\ files' = files \cup {get_filename(movie)}
        /\ c_index_data' =
             [c_index_data EXCEPT ![i] = Append(@, IndexEntry(movie))]
  /\ c_wpos' = [c_wpos EXCEPT ![i] = @ + 1]
  /\ UNCHANGED <<indexFile, clock, page_log, concFrame, instances, c_pc,
                 c_batch, c_cur, c_page, c_new, c_calls, open_len>>

\* _save_index, line 31: open(INDEX_FILE, "w") truncates the file.
ConcOpen(i) ==
  /\ c_pc[i] = "writing"
  /\ c_wpos[i] > Len(c_new[i])
  /\ indexFile' = TornIndex
  /\ open_len' = 0
  /\ c_pc' = [c_pc EXCEPT ![i] = "dumping"]
  /\ UNCHANGED <<files, clock, page_log, concFrame, instances, c_batch,
                 c_cur, c_page, c_index_data, c_new, c_wpos, c_calls>>

\* _save_index, lines 32-38: the document is written from the start of the
\* file.  When the other instance has written a longer document since the
\* file was last truncated, its tail stays behind this one and the file is
\* no JSON document; documents with as many entries can be longer or
\* shorter, their titles deciding.
ConcDump(i) ==
  /\ c_pc[i] = "dumping"
  /\ clock' = clock + 1
  /\ \E clean \in BOOLEAN :
       /\ Len(c_index_data[i]) > open_len => clean
       /\ Len(c_index_data[i]) < open_len => ~clean
       /\ IF clean
            THEN /\ indexFile' = save_index(c_index_data[i], c_cur[i], clock + 1)
                 /\ page_log' = Append(page_log, c_cur[i])
                 /\ open_len' = Len(c_index_data[i])
            ELSE /\ indexFile' = TornIndex
                 /\ UNCHANGED <<page_log, open_len>>
  /\ ConcReturn(i, "ready")
  /\ UNCHANGED <<files, concFrame, instances, c_page, c_calls>>

ConcInit ==
  /\ CoreInit
  /\ catalog = Catalog(1)
  /\ target_total = 1
  /\ ReadInit
  /\ now = REQUEST_DELAY
  /\ PipeInit
  /\ instances \in {1, 2}
  /\ ConcIdle
  /\ ReaderIdle
  /\ NameIdle

ConcNext ==
  \/ \E i \in Instances : ConcStart(i)
  \/ \E i \in Instances : ConcCall(i)
  \/ \E i \in Instances : ConcLoad(i)
  \/ \E i \in Instances : ConcWrite(i)
  \/ \E i \in Instances : ConcOpen(i)
  \/ \E i \in Instances : ConcDump(i)

ConcSpec == ConcInit /\ [][ConcNext]_vars

\* --------------------------------------------------- downstream readers
\* MovieDataLoader._process_data (dashboard) and MovieAnalyzer.process_data
\* (movie_processing) walk over the loaded item records.  A record is
\* modelled by the shape of the fields the readers subscript: title
\* (missing or present), rating and stats (missing, null, present, or
\* present and empty: no votes in the distribution, all counters zero).
RecordShapes ==
  [title : {"missing", "ok"},
   rating : {"missing", "null", "ok", "empty"},
   stats : {"missing", "null", "ok", "empty"}]

Readers == {"loader", "analyzer"}

\* movie[key][sub]: KeyError when the key is missing, TypeError when its
\* value is None.
subscript_error(field) ==
  CASE field = "missing" -> "KeyError"
    [] field = "null" -> "TypeError"
    [] OTHER -> "none"

FirstError(errs) ==
  LET bad == {k \in 1..Len(errs) : errs[k] # "none"}
  IN IF bad = {} THEN "none"
     ELSE errs[CHOOSE k \in bad : \A j \in bad : k <= j]

\* data_loader.py, lines 39-67: the exception the body of the try raises.
loader_error(movie) ==
  FirstError(<<IF movie.title = "missing" THEN "KeyError" ELSE "none",
               subscript_error(movie.rating),
               subscript_error(movie.stats)>>)

\* movie_analyzer.py, lines 55-106: the exception the body of the try
\* raises, or "skip" for the continue of lines 56-57, 61-62 and 71-72.
analyzer_error(movie) ==
  FirstError(<<subscript_error(movie.rating),
               IF movie.rating = "empty" THEN "skip" ELSE "none",
               subscript_error(movie.stats),
               IF movie.stats = "empty" THEN "skip" ELSE "none",
               IF movie.title = "missing" THEN "KeyError" ELSE "none">>)

\* data_loader.py, line 71: except KeyError; movie_analyzer.py, line 108:
\* except Exception.
catches(who, err) == IF who = "loader" THEN err = "KeyError" ELSE TRUE

\* One iteration of the for loop of _process_data / process_data.
ReaderStep ==
  /\ rd_state = "running"
  /\ rd_pos <= Len(rd_data)
  /\ LET movie == rd_data[rd_pos]
         err == IF reader = "loader" THEN loader_error(movie)
                ELSE analyzer_error(movie)
     IN IF err = "none"
          THEN /\ rd_out' = Append(rd_out, rd_pos)
               /\ rd_pos' = rd_pos + 1
               /\ UNCHANGED rd_state
          ELSE IF err = "skip" \/ catches(reader, err)
            THEN /\ rd_pos' = rd_pos + 1
                 /\ UNCHANGED <<rd_out, rd_state>>
            ELSE /\ rd_state' = "raised"
                 /\ UNCHANGED <<rd_out, rd_pos>>
  /\ UNCHANGED <<base, conc, naming, read_result, limiter, pipe, reader,
                 rd_data>>

\* After the loop: data_loader.py line 75, movie_analyzer.py lines 112-115.
ReaderFinish ==
  /\ rd_state = "running"
  /\ rd_pos > Len(rd_data)
  /\ rd_state' = IF reader = "analyzer" /\ rd_out = <<>>
                   THEN "no_valid" ELSE "done"
  /\ UNCHANGED <<base, conc, naming, read_result, limiter, pipe, reader,
                 rd_data,
                 rd_pos, rd_out>>

ReaderInit ==
  /\ CoreInit
  /\ catalog = Catalog(1)
  /\ target_total = 1
  /\ ReadInit
  /\ now = REQUEST_DELAY
  /\ PipeInit
  /\ instances = 1
  /\ ConcIdle
  /\ reader \in Readers
  /\ rd_data \in SeqsUpTo(RecordShapes, MaxRecords) \ {<<>>}
  /\ rd_pos = 1
  /\ rd_out = <<>>
  /\ rd_state = "running"
  /\ NameIdle

ReaderNext ==
  \/ ReaderStep
  \/ ReaderFinish

ReaderSpec == ReaderInit /\ [][ReaderNext]_vars

\* ------------------------------------------------------------ file names
\* Movie.get_filename called on two movies with any titles and identifiers.
\* The titles are made of a digit, an underscore and a blank.
NameChars == {"1", "_", " "}
NameMovies == [trakt : 1..MaxNameId, title : SeqsUpTo(NameChars, MaxTitleLen)]

GetFilename ==
  /\ Len(fn_names) < Len(fn_movies)
  /\ fn_names' = Append(fn_names, get_filename(fn_movies[Len(fn_names) + 1]))
  /\ UNCHANGED <<base, conc, readers, read_result, limiter, pipe, fn_movies>>

NameInit ==
  /\ CoreInit
  /\ catalog = Catalog(1)
  /\ target_total = 1
  /\ ReadInit
  /\ now = REQUEST_DELAY
  /\ PipeInit
  /\ instances = 1
  /\ ConcIdle
  /\ ReaderIdle
  /\ fn_movies \in [1..2 -> NameMovies]
  /\ fn_names = <<>>

NameNext == GetFilename

NameSpec == NameInit /\ [][NameNext]_vars

\* ------------------------------------------------- one uninterrupted run
\* get_top_movies, lines 125-192, on one listing page: the identifiers it
\* fetches from position i on, given the count reached so far.
RECURSIVE ScanPage(_, _, _, _, _)
ScanPage(pm, i, fetched, lim, total) ==
  IF i > Len(pm) \/ total >= lim THEN [ids |-> <<>>, total |-> total]
  ELSE IF pm[i] \in fetched THEN ScanPage(pm, i + 1, fetched, lim, total)
  ELSE LET rest == ScanPage(pm, i + 1, fetched, lim, total + 1)
       IN [ids |-> <<pm[i]>> \o rest.ids, total |-> rest.total]

\* get_top_movies, lines 107-204, run to its end without error: the
\* identifiers of all the movies it yields, in order.
RECURSIVE RunIds(_, _, _, _, _)
RunIds(cat, lim, fetched, pg, total) ==
  IF total >= lim THEN <<>>
  ELSE LET pm == Listing(cat, pg, page_limit(lim, total))
       IN IF pm = <<>> THEN <<>>
          ELSE LET r == ScanPage(pm, 1, fetched, lim, total)
               IN r.ids \o RunIds(cat, lim, fetched, pg + 1, r.total)

\* The identifiers one uninterrupted driver run persists on an empty store.
UninterruptedIds == Range(RunIds(catalog, target_total, {}, 1, 0))

\* ------------------------------------------------------------- properties
IndexValid == indexFile.state = "valid"

\* The identifiers of the index entries, and those that have an item file.
IndexIds == existing_movies(indexFile.movies)
FileIds == {i \in Ids : get_filename(Movie(i)) \in files}

Count(seq, x) == Cardinality({k \in 1..Len(seq) : seq[k] = x})
EntryIds(ms) == [k \in 1..Len(ms) |-> ms[k].id]
BatchIds(ms) == [k \in 1..Len(ms) |-> ms[k].trakt]
IsPrefix(a, b) == Len(a) <= Len(b) /\ SubSeq(b, 1, Len(a)) = a

\* The model's reference run agrees with the stepwise run: a first run that
\* ends without error on the empty store persists UninterruptedIds.
RunIdsAgree ==
  (pc = "idle" /\ outcome = "ok" /\ runs = 1 /\ aborts = 0)
    => (FileIds = UninterruptedIds /\ IndexIds = UninterruptedIds)

\* C1: whenever the persisted index has last_page = p, every new item this
\* run's listing returned on a page <= p has its item file and its index
\* entry.
C1_CursorCoversListedItems ==
  IndexValid =>
    \A e \in listed :
      e[1] <= indexFile.last_page =>
        (e[2] \in IndexIds /\ e[2] \in FileIds)

\* C2: an aborted run followed by a rerun that ends without error leaves
\* the item identifiers one uninterrupted run would have persisted.
C2_RerunEqualsUninterrupted ==
  (pc = "idle" /\ outcome = "ok" /\ runs = 2 /\ aborts = 1)
    => FileIds = UninterruptedIds

\* C3: the index's movies list and its fetched_ids list hold each
\* identifier at most once, whatever batches save_movies was called with.
C3_NoDuplicateIds ==
  IndexValid =>
    \A i \in Ids :
      /\ Count(EntryIds(indexFile.movies), i) <= 1
      /\ Count(indexFile.fetched_ids, i) <= 1

\* C4: as long as no run has been aborted, every identifier has been looked
\* up at most once, put in a yielded batch at most once and has at most one
\* index entry.
C4_FetchedAtMostOnce ==
  aborts = 0 =>
    \A i \in Ids :
      /\ lookups[i] <= 1
      /\ yielded[i] <= 1
      /\ Count(EntryIds(indexFile.movies), i) <= 1

\* C5: when save_movies(items, page) has returned, for any non-empty batch,
\* get_last_page() is page.
C5_LastPageIsPageAfterSave ==
  (pc = "saved" /\ batch # <<>>) => get_last_page(indexFile) = current_page

\* C6: every last_page value written to the index is >= every value written
\* before it, within a run and across runs, aborted or not.
C6_CursorNeverDecreases ==
  \A i \in 1..Len(page_log) : \A j \in i..Len(page_log) :
    page_log[i] <= page_log[j]

\* A second run, after an aborted one, has written a new last_page.
C6_Witness ==
  /\ Len(page_log) >= 2
  /\ aborts >= 1
  /\ runs >= 2
  /\ IndexValid
  /\ indexFile.last_page = page_log[Len(page_log)]

\* C7: when save_movies has returned, the identifiers in the index are
\* exactly those that have an item file.
C7_IndexEqualsFiles ==
  pc = "saved" => IndexIds = FileIds

\* C8: save_movies called with only already-indexed items leaves movies and
\* fetched_ids as they were and writes no item file; only last_updated and
\* last_page may differ.
C8_ResaveChangesNothing ==
  (pc = "saved" /\ Range(BatchIds(batch)) \subseteq existing_movies(pre_index.movies))
    => /\ indexFile.movies = pre_index.movies
       /\ indexFile.fetched_ids = pre_index.fetched_ids
       /\ indexFile.state = pre_index.state
       /\ files = pre_files

\* save_movies has returned from a call with a non-empty batch of items that
\* were all indexed already.
C8_Witness ==
  /\ pc = "saved"
  /\ batch # <<>>
  /\ Range(BatchIds(batch)) \subseteq existing_movies(pre_index.movies)
  /\ current_page # pre_index.last_page

\* C9: after save_movies(A, p) and then save_movies(B, q), every identifier
\* A and B share has exactly one item file and one index entry, the second
\* call has appended entries and written files only for the items of B that
\* were not indexed, and has left what the first call wrote as it was.
C9_OverlapSavedOnce ==
  (pc = "saved" /\ calls >= 2) =>
    LET shared == Range(BatchIds(prev_batch)) \cap Range(BatchIds(batch))
        fresh == Range(BatchIds(batch)) \ existing_movies(pre_index.movies)
    IN /\ \A i \in shared :
            /\ Count(EntryIds(indexFile.movies), i) = 1
            /\ Cardinality({f \in files : f = get_filename(Movie(i))}) = 1
       /\ IsPrefix(pre_index.movies, indexFile.movies)
       /\ \A k \in Len(pre_index.movies) + 1 .. Len(indexFile.movies) :
            indexFile.movies[k].id \in fresh
       /\ pre_files \subseteq files
       /\ \A i \in FileIds : get_filename(Movie(i)) \notin pre_files => i \in fresh

\* C10: every yielded batch is non-empty and holds at most BATCH_SIZE items,
\* every yielded batch but the last holds exactly BATCH_SIZE, and when the
\* run ends without error every fetched item has been yielded.
RECURSIVE SumSizes(_)
SumSizes(ys) == IF ys = <<>> THEN 0
                ELSE Len(ys[1].batch) + SumSizes(SubSeq(ys, 2, Len(ys)))

C10_BatchSizes ==
  /\ \A k \in 1..Len(yields) :
       /\ Len(yields[k].batch) >= 1
       /\ Len(yields[k].batch) <= BATCH_SIZE
  /\ \A k \in 1..(Len(yields) - 1) : Len(yields[k].batch) = BATCH_SIZE
  /\ (pc = "idle" /\ outcome = "ok") => SumSizes(yields) = total_processed

\* A run has ended after a full batch followed by a smaller final batch.
C10_Witness ==
  /\ pc = "idle"
  /\ outcome = "ok"
  /\ Len(yields) = 2
  /\ Len(yields[1].batch) = BATCH_SIZE
  /\ Len(yields[2].batch) < BATCH_SIZE

\* C11: the items yielded by a run never exceed its limit; the while loop
\* is left without error only when limit items have been fetched or a
\* listing request returned an empty page; and when the run has ended every
\* fetched item has been yielded.
C11_LimitAndEnd ==
  /\ SumSizes(yields) <= total_processed
  /\ pc # "idle" => total_processed <= remaining
  /\ (pc = "tail" \/ resume = "final")
       => (total_processed = remaining \/ page_movies = <<>>)
  /\ (pc = "idle" /\ outcome = "ok") => SumSizes(yields) = total_processed

\* The catalog ran out before the limit and the remainder is being saved.
C11_Witness ==
  /\ resume = "final"
  /\ pc = "saved"
  /\ page_movies = <<>>
  /\ total_processed < remaining
  /\ SumSizes(yields) = total_processed
  /\ total_processed >= TraktPageLimit

\* C12: a listed item whose identifier is in the already-fetched set loaded
\* at the start of the run causes no lookup, enters no batch and is not
\* counted; the listing pages still follow each other from start_page on.
C12_SkipsFetched ==
  [][(pc \in {"loop", "items"} /\ pc' # "idle") =>
       /\ \A i \in fetched_ids :
            lookups'[i] = lookups[i] /\ yielded'[i] = yielded[i]
       /\ \A k \in 1..Len(movies') : movies'[k].trakt \notin fetched_ids
       /\ (/\ pc = "items" /\ pc' = "items"
           /\ pos <= Len(page_movies)
           /\ page_movies[pos] \in fetched_ids)
            => /\ total_processed' = total_processed
               /\ movies' = movies
               /\ pos' = pos + 1
       /\ \A k \in 1..Len(requests') : requests'[k] = start_page' + k - 1
    ]_vars

\* A listing page held only already-fetched items and the page number has
\* advanced past it.
C12_Witness ==
  /\ pc = "loop"
  /\ requests # <<>>
  /\ page = requests[Len(requests)] + 1
  /\ page_movies # <<>>
  /\ \A k \in 1..Len(page_movies) : page_movies[k] \in fetched_ids
  /\ total_processed = 0

\* C13: the time at which a pass through the rate limiter returns is at
\* least REQUEST_DELAY (W/N) after the time at which the pass before it
\* returned; a pass entered at least REQUEST_DELAY after the previous one
\* returned, and the first pass of a run, returns without sleeping; and
\* last_request_time is the time after the wait.
C13_LimiterCadence ==
  /\ passes >= 2 => this_return - prev_return >= REQUEST_DELAY
  /\ passes >= 1 => last_request_time = this_return
  /\ (passes >= 1 /\ phase \in {"send", "answer"}) =>
       /\ current_time - prev_return >= REQUEST_DELAY => ~slept
       /\ passes = 1 => ~slept
       /\ slept => this_return > current_time

\* A pass has slept and returned, after an earlier pass.
C13_Witness ==
  /\ passes >= 2 /\ phase = "send" /\ slept
  /\ this_return - prev_return = REQUEST_DELAY

\* C14, as claimed: every request of the pipeline, the keyword request
\* included, is immediately preceded by its own pass through the rate
\* limiter.
C14_EveryRequestPassesLimiter ==
  \A k \in 1..Len(log) :
    log[k] # "pass" => (k > 1 /\ log[k - 1] = "pass")

\* C14, amended: every listing, detail, stats and ratings request is
\* immediately preceded by its own pass through the rate limiter; the
\* keyword request follows the ratings request with no pass of its own.
C14_TraktRequestsPassLimiter ==
  \A k \in 1..Len(log) :
    /\ log[k] \in TraktKinds => (k > 1 /\ log[k - 1] = "pass")
    /\ log[k] = "keywords" => (k > 1 /\ log[k - 1] = "ratings")

\* All four requests of an item have been sent.
C14_Witness ==
  log = <<"pass", "details", "pass", "stats", "pass", "ratings", "keywords">>

\* C15: a 404 answer to the keyword request gives the item an empty keyword
\* list and the item is built without an error; any other answer that is
\* not a success raises; an item without tmdb id gets no keyword request
\* and an empty keyword list.
C15_KeywordAnswers ==
  /\ (/\ rq \in {"build", "raised"}
      /\ log # <<>> /\ log[Len(log)] = "keywords")
       => /\ status = 404 => (rq = "build" /\ keywords = <<>>)
          /\ status \notin {200, 404} => rq = "raised"
          /\ status = 200 => rq = "build"
  /\ (rq = "build" /\ tmdb = 0)
       => /\ keywords = <<>>
          /\ \A k \in 1..Len(log) : log[k] # "keywords"

\* The keyword request of an item with a tmdb id was answered 404.
C15_Witness ==
  /\ rq = "build" /\ tmdb = 999 /\ status = 404
  /\ log # <<>> /\ log[Len(log)] = "keywords"
  /\ keywords = <<>>

\* C16: a non-2xx answer to a listing, detail, stats or ratings request
\* ends the run with the error reported: the generator is not resumed, no
\* request, yield or save follows, and the index and the item files are
\* those of the last completed save_movies (of the start of the run when
\* the run completed none); nothing happens until the driver is run again.
C16_ErrorAbortsRun ==
  [][/\ (aborts' # aborts /\ outcome' = "error") =>
          /\ pc' = "idle"
          /\ resume' = "none" /\ movies' = <<>> /\ batch' = <<>>
          /\ indexFile' = stable.index
          /\ files' = stable.files
          /\ stable' = stable
          /\ lookups' = lookups
          /\ requests' = requests
          /\ yields' = yields
          /\ page_log' = page_log
     /\ (pc = "idle" /\ pc' = "idle") =>
          /\ store' = store
          /\ lookups' = lookups
          /\ requests' = requests
          /\ yields' = yields
    ]_vars

\* A run that had saved a batch and fetched more items ended with an
\* upstream error.
C16_Witness ==
  /\ pc = "idle" /\ outcome = "error"
  /\ IndexValid
  /\ Len(yields) >= 1
  /\ total_processed > SumSizes(yields)
  /\ indexFile = stable.index /\ files = stable.files
  /\ Len(indexFile.movies) = SumSizes(yields)

\* C17: at every crash point of a run the index file is the one written by
\* the last completed save_movies (entries and last_page), every identifier
\* of the index has its item file, and the item files that the index does
\* not list all belong to the batch that was being written at the crash.
C17_CrashLeavesLastSave ==
  (pc = "idle" /\ outcome = "crash") =>
    /\ indexFile = stable.index
    /\ IndexIds \subseteq FileIds
    /\ (FileIds \ IndexIds) \subseteq crash_batch

\* The identifiers of the yielded batches, in yield order.
RECURSIVE YieldedIds(_)
YieldedIds(ys) == IF ys = <<>> THEN <<>>
                  ELSE BatchIds(ys[1].batch) \o YieldedIds(SubSeq(ys, 2, Len(ys)))

\* C18: when the first run, on an empty store, ends without error and the
\* batches it yielded hold pairwise distinct identifiers, the store holds
\* as many item files as items were yielded, the index has one entry per
\* yielded item in yield order, and last_page is the page number yielded
\* with the last batch.
C18_RunFromEmptyStore ==
  (/\ pc = "idle" /\ outcome = "ok"
   /\ runs = 1 /\ aborts = 0
   /\ yields # <<>>
   /\ \A i \in Ids : yielded[i] <= 1)
    => /\ Cardinality(files) = SumSizes(yields)
       /\ IndexValid
       /\ EntryIds(indexFile.movies) = YieldedIds(yields)
       /\ indexFile.fetched_ids = YieldedIds(yields)
       /\ indexFile.last_page = yields[Len(yields)].page

\* The first run has ended after yielding two batches of distinct items.
C18_Witness ==
  /\ pc = "idle" /\ outcome = "ok"
  /\ runs = 1 /\ aborts = 0
  /\ Len(yields) = 2
  /\ \A i \in Ids : yielded[i] <= 1
  /\ Cardinality(files) = SumSizes(yields)

C20_SingleInstanceKeepsIndex ==
  (instances = 1 /\ c_pc[1] = "ready") =>
    /\ indexFile.state # "torn"
    /\ FileIds \subseteq IndexIds
    /\ \A k \in 1..(Len(page_log) - 1) : page_log[k] <= page_log[k + 1]

\* Two instances have both completed a save_movies call; an item file has
\* no index entry and the last_page written last is lower than one written
\* before.
C20_Witness ==
  /\ instances = 2
  /\ \A i \in 1..2 : c_pc[i] = "ready" /\ c_calls[i] >= 1
  /\ IndexValid
  /\ \E i \in FileIds : i \notin IndexIds
  /\ Len(page_log) >= 2
  /\ indexFile.last_page < page_log[Len(page_log) - 1]

\* C21: a reader never aborts on a record with a missing key or a null
\* rating or stats record; when it is through, every well-formed record has
\* been processed and no malformed one has.
C21_BadRecordsSkipped ==
  /\ rd_state # "raised"
  /\ rd_state \in {"done", "no_valid"} =>
       \A k \in 1..Len(rd_data) :
         /\ (rd_data[k].title = "ok" /\ rd_data[k].rating = "ok"
               /\ rd_data[k].stats = "ok")
              => \E j \in 1..Len(rd_out) : rd_out[j] = k
         /\ (rd_data[k].title = "missing"
               \/ rd_data[k].rating \in {"missing", "null"}
               \/ rd_data[k].stats \in {"missing", "null"})
              => \A j \in 1..Len(rd_out) : rd_out[j] # k

\* C22: the listing pages of a run are requested in consecutive order from
\* the persisted cursor plus one: a run starts at get_last_page + 1, every
\* later request asks for the page after the previous one, which was not
\* empty, and no page is requested twice in the run.
C22_ConsecutivePages ==
  [][/\ (pc = "idle" /\ pc' = "loop") =>
          /\ start_page' = get_last_page(indexFile) + 1
          /\ page' = start_page'
          /\ requests' = <<>>
     /\ (pc # "idle" /\ requests' # requests) =>
          /\ requests' = Append(requests, start_page + Len(requests))
          /\ requests # <<>> => page_movies # <<>>
          /\ start_page' = start_page
     /\ (pc = "tail" /\ page_movies = <<>>) => requests' = requests
     /\ \A j, k \in 1..Len(requests') :
          j # k => requests'[j] # requests'[k]
    ]_vars

\* A run that started after a persisted cursor has requested two pages and
\* the second one came back empty.
C22_Witness ==
  /\ pc = "tail"
  /\ page_movies = <<>>
  /\ Len(requests) >= 2
  /\ start_page > 1

\* C23: every yielded batch is persisted before the generator sends its
\* next request: when a listing request or an item lookup is sent, the index
\* file is whole and holds, with an item file each, every item of every
\* batch the run has yielded so far; and one step sends one request.
C23_SaveBeforeNextRequest ==
  [][(pc # "idle" /\ (requests' # requests \/ lookups' # lookups)) =>
       /\ pc \in {"loop", "items"}
       /\ yields # <<>> => IndexValid
       /\ \A k \in 1..Len(yields) : \A j \in 1..Len(yields[k].batch) :
            /\ yields[k].batch[j].trakt \in IndexIds
            /\ get_filename(yields[k].batch[j]) \in files
       /\ \/ /\ requests' = Append(requests, page)
             /\ lookups' = lookups
          \/ /\ requests' = requests
             /\ \E i \in Ids : lookups' = [lookups EXCEPT ![i] = @ + 1]
    ]_vars

\* A full batch has been yielded and saved, and the generator has gone on to
\* look up the next item.
C23_Witness ==
  /\ pc = "items"
  /\ Len(yields) = 1
  /\ Len(movies) = 1
  /\ calls >= 1
  /\ \A j \in 1..Len(yields[1].batch) : yields[1].batch[j].trakt \in IndexIds

\* C24: save_movies only appends: the movies list of the index before a call
\* is a prefix of the list after it, no item file is ever deleted, and the
\* item file of an identifier the index already holds is never written again.
C24_AppendOnly ==
  [][/\ pc' = "saved" => IsPrefix(pre_index'.movies, indexFile'.movies)
     /\ files \subseteq files'
     /\ (pc = "writing" /\ wpos' = wpos + 1) =>
          \A k \in 1..Len(indexFile.movies) :
            /\ indexFile.movies[k].id # new_movies[wpos].trakt
            /\ indexFile.movies[k].filename # get_filename(new_movies[wpos])
    ]_vars

\* A call on a non-empty index has returned after appending entries for a
\* batch that also held an item the index already had.
C24_Witness ==
  /\ pc = "saved"
  /\ pre_index.movies # <<>>
  /\ Len(indexFile.movies) > Len(pre_index.movies)
  /\ \E j \in 1..Len(batch) :
       batch[j].trakt \in existing_movies(pre_index.movies)

\* C25: in every index document written, fetched_ids is the list of the id
\* fields of movies, in the same order; so the set get_fetched_ids returns is
\* the set save_movies compares a batch against.
C25_FetchedIdsMirrorMovies ==
  /\ indexFile.state = "valid" =>
       indexFile.fetched_ids = EntryIds(indexFile.movies)
  /\ indexFile.state # "torn" =>
       get_fetched_ids(indexFile) = existing_movies(load_index(indexFile).movies)

\* An index document with several entries, two of them for the same item,
\* has been written.
C25_Witness ==
  /\ pc = "saved"
  /\ indexFile.state = "valid"
  /\ Len(indexFile.movies) >= 3
  /\ \E j, k \in 1..Len(indexFile.movies) :
       j < k /\ indexFile.movies[j].id = indexFile.movies[k].id
  /\ Cardinality(get_fetched_ids(indexFile)) >= 2

\* C26: the file name of a movie is its sanitized title, an underscore, its
\* identifier and ".json"; two movies with different identifiers get
\* different file names whatever their titles are, and two movies with the
\* same title and identifier get the same one.
C26_FilenamesDistinct ==
  /\ \A k \in 1..Len(fn_names) :
       LET m == fn_movies[k]
           n == fn_names[k]
           suffix == <<"_">> \o IntStr(m.trakt) \o <<".json">>
       IN /\ Len(n) = Len(m.title) + Len(suffix)
          /\ SubSeq(n, Len(m.title) + 1, Len(n)) = suffix
          /\ \A i \in 1..Len(m.title) :
               n[i] = IF m.title[i] = "1" THEN "1" ELSE "_"
  /\ Len(fn_names) = 2 =>
       /\ fn_movies[1].trakt # fn_movies[2].trakt => fn_names[1] # fn_names[2]
       /\ fn_movies[1] = fn_movies[2] => fn_names[1] = fn_names[2]

\* File names have been made for two movies with different identifiers
\* whose titles differ, sanitize to the same string and end in "_1".
C26_Witness ==
  /\ Len(fn_names) = 2
  /\ fn_movies[1].trakt # fn_movies[2].trakt
  /\ fn_movies[1].title = <<"_", "1">>
  /\ fn_movies[2].title = <<" ", "1">>

\* C27: every run of get_top_movies comes to an end, whatever the catalog
\* and the limit are and also when every listed item has been fetched
\* before; and it ends in exactly one way: limit items yielded, an empty
\* listing page, or an error.
C27_RunTerminates ==
  /\ (pc # "idle") ~> (pc = "idle")
  /\ [][(pc # "idle" /\ pc' = "idle" /\ outcome' # "crash") =>
          LET limit_reached == /\ total_processed = remaining
                               /\ SumSizes(yields') = remaining
              empty_page == /\ total_processed < remaining
                            /\ page_movies = <<>>
                            /\ requests # <<>>
          IN \/ outcome' = "ok" /\ limit_reached /\ ~empty_page
             \/ outcome' = "ok" /\ empty_page /\ ~limit_reached
             \/ outcome' = "error" /\ AtRequest
      ]_vars

\* A run that found every listed item fetched already has ended at the
\* empty page behind the catalog.
C27_Witness ==
  /\ pc = "idle"
  /\ outcome = "ok"
  /\ runs >= 2
  /\ total_processed = 0
  /\ yields = <<>>
  /\ Len(requests) >= 2
  /\ IndexIds # {}

\* C28: the page number delivered with every yielded batch, the final one
\* included, is a page the run has already requested.
C28_YieldedPageRequested ==
  \A k \in 1..Len(yields) : yields[k].page \in Range(requests)

\* C29: every listing request of a run asks for the same page size, so that
\* a page number always denotes the same slice of the catalog, and no
\* listing request returns an item the run has fetched before.
C29_FixedPageSize ==
  [][(pc = "loop" /\ requests' # requests) =>
       /\ page_limit(remaining, total_processed) = page_limit(remaining, 0)
       /\ \A k \in 1..Len(page_movies') :
            page_movies'[k] \notin
              Range(BatchIds(movies)) \cup Range(YieldedIds(yields))
    ]_vars

\* C30: the driver asks the generator for max(0, target_total - number of
\* item files) items; when that is 0 it sends no request and writes nothing;
\* and after a run that ended without error by reaching its limit, on
\* whatever store it started and with a catalog of at least target_total
\* items, the store holds target_total item files.
C30_TargetReached ==
  [][/\ (pc = "idle" /\ pc' = "loop") =>
          /\ remaining' = Max(0, target_total - Cardinality(files))
          /\ remaining' > 0
     /\ (pc = "idle" /\ indexFile.state # "torn"
            /\ target_total - Cardinality(files) <= 0) =>
          /\ pc' = "idle"
          /\ UNCHANGED <<store, requests, lookups>>
     /\ (pc # "idle" /\ pc' = "idle" /\ outcome' = "ok"
            /\ total_processed = remaining
            /\ Len(catalog) >= target_total) =>
          Cardinality(files') = target_total
    ]_vars

====
